---- MODULE Spec2Model ----
(***************************************************************************)
(* A model of gentle's bounded-concurrency task runner (multi_runner.rs)   *)
(* and of its file cache (cache.rs).                                       *)
(*                                                                         *)
(* The runner is modelled as one submitting context (the owner of the      *)
(* ParRunner, whose position inside run / into_wait / drop is pc) and one  *)
(* worker thread per started task.  Workers and the submitting context     *)
(* interleave freely; they communicate through the mpsc channel only.      *)
(***************************************************************************)
EXTENDS Integers, Sequences, FiniteSets, TLC

\* ------------------------------------------------------------------ bounds
\* Largest concurrency bound (with_parallel's max_threads) tried.
MaxK == 2
\* Number of run() calls the caller makes at most.
MaxTasks == 3

\* Names the caller passes to run(); two tasks may share a name.
Names == {"a", "b"}

\* ------------------------------------------------------------------- state
VARIABLES
  max_threads,  \* ParRunner.max_threads
  handles,      \* ParRunner.handles: slot -> uid of the thread spawned there
  names,        \* ParRunner.names: slot -> name
  chan,         \* the mpsc channel: messages sent and not yet received
  alive,        \* the ParRunner (and so its Receiver) has not been dropped
  progress,     \* the calls made on the ProgressListener, in order
  threads,      \* worker threads whose closure has not yet sent its result
  lost,         \* uids of workers whose send found the Receiver dropped
  pc,           \* position of the submitting context
  call,         \* the run() call in progress
  iw_r,         \* into_wait's local r, between wait_receive_all and the return
  tasks,        \* every run() call made so far: its name and its op's result
  started,      \* uids of the tasks for which a thread was spawned
  rets,         \* what each finished call returned to the caller, in order
  order,        \* the completions received, in the order they were received
  arrived,      \* uids in the order their completions were sent
  fs,           \* the filesystem the Cache works on: path -> node
  hist,         \* the cache operations done so far, each with the fs before it
  addr          \* a target address: the text, the address shown, the parse result

vars == <<max_threads, handles, names, chan, alive, progress, threads, lost,
          pc, call, iw_r, tasks, started, rets, order, arrived, fs, hist, addr>>

\* Result<(), E>: Ok(()) or Err(e).  The error value of a task is modelled as
\* its uid (the index of its run() call), so that two tasks never return the
\* same error value.
OkRes == [ok |-> TRUE, err |-> 0]
ErrRes(e) == [ok |-> FALSE, err |-> e]

NoCall == [name |-> "", res |-> OkRes, uid |-> 0, pend |-> 0]

\* A map with one key removed (HashMap::remove).
Without(f, k) == [x \in (DOMAIN f) \ {k} |-> f[x]]
\* A map with one key set (HashMap::insert).
With(f, k, v) == [x \in (DOMAIN f) \cup {k} |-> IF x = k THEN v ELSE f[x]]
Empty == [x \in {} |-> 0]

Min(S) == CHOOSE x \in S : \A y \in S : x <= y
Range(q) == {q[i] : i \in 1..Len(q)}

\* The value a call returns to the caller: Ok(()) or Err((name, err)).  uid is
\* the index of the run() call that returns it (0 for into_wait and drop) and
\* pend what that call found waiting when it was made.
Ret(op, c, r, name) ==
  [op |-> op, uid |-> c.uid, pend |-> c.pend, ok |-> r.ok, name |-> name, err |-> r.err]
NoRet == Ret("none", NoCall, OkRes, "")

\* The uid of the first errored completion waiting in the channel, 0 if none.
FirstErr(q) ==
  LET bad == {i \in 1..Len(q) : ~q[i].r.ok}
  IN IF bad = {} THEN 0 ELSE q[Min(bad)].uid

\* with_parallel: empty tables, an empty channel.
RunnerNew ==
  /\ handles = Empty
  /\ names = Empty
  /\ chan = <<>>
  /\ alive = TRUE
  /\ progress = <<>>
  /\ threads = {}
  /\ lost = {}
  /\ pc = "idle"
  /\ call = NoCall
  /\ iw_r = NoRet
  /\ tasks = <<>>
  /\ started = {}
  /\ rets = <<>>
  /\ order = <<>>
  /\ arrived = <<>>

\* ------------------------------------------------------------- the cache
\* cache.rs: `const DEDUPLICATE_LARGER_THAN: u64 = 1024`
DEDUPLICATE_LARGER_THAN == 1024
\* cache.rs: `HASHED_FILE_PREFIX.len()`, the length of b"GENTLE HASHED"
PrefixLen == 13
\* cache.rs: the 64 hex digits of a hash, `HASHED_FILE_PREFIX.len() + 64`
HexLen == 64

\* Most files and most cache operations tried.
MaxFiles == 2
MaxOps == 3

\* A file's bytes: their number, whether they start with HASHED_FILE_PREFIX,
\* and a name for the bytes that follow (for a pointer record, the 64 bytes
\* after the prefix).
Bytes(len, pfx, tail) == [len |-> len, pfx |-> pfx, tail |-> tail]
NoData == Bytes(0, FALSE, "")

\* The contents tried: a small file as long as a pointer record but without
\* the prefix, a file one byte under the threshold that starts with the
\* prefix, 1024 zeros, a larger file; and below, two files with the length and
\* the prefix of a pointer record: one naming the hash of the zeros, one whose
\* tail is no hex.
Plain77 == Bytes(PrefixLen + HexLen, FALSE, "plain")
Under == Bytes(DEDUPLICATE_LARGER_THAN - 1, TRUE, "under")
Zeros == Bytes(DEDUPLICATE_LARGER_THAN, FALSE, "zeros")
Big == Bytes(2 * DEDUPLICATE_LARGER_THAN, FALSE, "big")

\* blake3 of a content, as the hex string `to_hex` gives: one name per
\* content (no two contents tried collide).
Blake3(c) ==
  CASE c = Plain77 -> "b3-plain"
    [] c = Under -> "b3-under"
    [] c = Zeros -> "b3-zeros"
    [] c = Big -> "b3-big"
    [] OTHER -> "b3-other"

\* The strings blake3::Hash::from_hex accepts.
HexNames == {"b3-plain", "b3-under", "b3-zeros", "b3-big", "b3-other"}

\* copy_into: the pointer record `HASHED_FILE_PREFIX ++ hash.to_hex()`
PointerRecord(hash) == Bytes(PrefixLen + HexLen, TRUE, hash)

PtrZeros == PointerRecord(Blake3(Zeros))
PtrBad == Bytes(PrefixLen + HexLen, TRUE, "not-hex")

\* Permission bits: what File::create gives a new file, and an executable.
DefaultMode == "rw-r--r--"
ExecMode == "rwxr-xr-x"

DirNode == [dir |-> TRUE, data |-> NoData, mode |-> "dir"]
FileNode(c, m) == [dir |-> FALSE, data |-> c, mode |-> m]

\* The source files tried.
FileKinds ==
  {FileNode(Plain77, DefaultMode), FileNode(Under, ExecMode),
   FileNode(Zeros, DefaultMode), FileNode(Zeros, ExecMode),
   FileNode(Big, DefaultMode), FileNode(PtrZeros, DefaultMode),
   FileNode(PtrBad, DefaultMode)}

\* Paths are sequences of components; the root "/" is the empty sequence.
Root == <<>>
\* Cache::new(fs, "/cache", "/project"), as in the tests.
CacheRoot == <<"cache">>
Pwd == <<"project">>
LargeFiles == CacheRoot \o <<"large_files">>

\* Where source files may be, and the paths save is called with: absolute, or
\* relative to the working directory (path.starts_with("/")).
FilePaths == {<<"src", "foo.txt">>, <<"src", "subdir", "bar.txt">>, <<"project", "out", "baz">>}
SavePath(abs, comps) == [abs |-> abs, comps |-> comps]
SavePaths ==
  {SavePath(TRUE, <<"src">>), SavePath(TRUE, <<"src", "foo.txt">>),
   SavePath(FALSE, <<"out">>), SavePath(TRUE, <<"missing">>)}

\* The order read_dir lists names in, or its reverse.
NameOrder == <<"absolute", "relative", "large_files", "cache", "src", "foo.txt",
               "subdir", "bar.txt", "project", "out", "baz", "missing">>

\* FileSystem: exists, metadata().file_type
Exists(f, p) == p \in DOMAIN f
IsDir(f, p) == Exists(f, p) /\ f[p].dir
IsFile(f, p) == Exists(f, p) /\ ~f[p].dir
Parent(p) == SubSeq(p, 1, Len(p) - 1)
IsPrefix(p, q) == Len(p) <= Len(q) /\ SubSeq(q, 1, Len(p)) = p
Put(f, p, n) == [q \in (DOMAIN f) \cup {p} |-> IF q = p THEN n ELSE f[q]]

\* anyhow::Result<()> together with the filesystem the call leaves.
Done(f) == [fs |-> f, ok |-> TRUE]
Failed(f) == [fs |-> f, ok |-> FALSE]

\* FileSystem::create_dir (std::fs::create_dir)
fs_create_dir(f, p) ==
  IF IsDir(f, Parent(p)) /\ ~Exists(f, p) THEN Done(Put(f, p, DirNode)) ELSE Failed(f)

\* FileSystem::copy_file (std::fs::copy): the bytes and the permission bits.
fs_copy_file(f, src, dst) ==
  IF IsFile(f, src) /\ IsDir(f, Parent(dst)) /\ ~IsDir(f, dst)
    THEN Done(Put(f, dst, FileNode(f[src].data, f[src].mode)))
    ELSE Failed(f)

\* Mutant of fs_write_file: an existing file is appended to, not truncated.
fs_write_file_Append(f, p, c) ==
  IF IsDir(f, Parent(p)) /\ ~IsDir(f, p)
    THEN Done(Put(f, p, IF Exists(f, p)
                          THEN FileNode(Bytes(f[p].data.len + c.len, f[p].data.pfx, f[p].data.tail),
                                        f[p].mode)
                          ELSE FileNode(c, DefaultMode)))
    ELSE Failed(f)

\* FileSystem::create_file and write_all: a new or truncated file with bytes c.
fs_write_file(f, p, c) ==
  IF IsDir(f, Parent(p)) /\ ~IsDir(f, p)
    THEN Done(Put(f, p, FileNode(c, IF Exists(f, p) THEN f[p].mode ELSE DefaultMode)))
    ELSE Failed(f)

\* FileSystem::read_dir: the names in a directory, in listing order.
RECURSIVE Listed(_, _, _)
Listed(f, dir, i) ==
  IF i > Len(NameOrder) THEN <<>>
  ELSE (IF Exists(f, dir \o <<NameOrder[i]>>) THEN <<NameOrder[i]>> ELSE <<>>)
         \o Listed(f, dir, i + 1)
Reverse(q) == [i \in 1..Len(q) |-> q[Len(q) + 1 - i]]
ReadDir(f, dir, rev) == IF rev THEN Reverse(Listed(f, dir, 1)) ELSE Listed(f, dir, 1)

\* Cache::create_dir_all
RECURSIVE create_dir_all(_, _)
create_dir_all(f, dir) ==
  IF Exists(f, dir) THEN Done(f)
  ELSE LET r == create_dir_all(f, Parent(dir))
       IN IF r.ok THEN fs_create_dir(r.fs, dir) ELSE r

\* Mutant of IsPointer: no file is taken for a pointer record.
IsPointer_Never(c) == FALSE

\* copy_into: `metadata.len == HASHED_FILE_PREFIX.len() + 64` and
\* `contents.starts_with(HASHED_FILE_PREFIX)`
IsPointer(c) == c.len = PrefixLen + HexLen /\ c.pfx

\* Mutant of IsInline: the test written with <= for <.
IsInline_Inclusive(c) == c.len <= DEDUPLICATE_LARGER_THAN

\* copy_into: `metadata.len < DEDUPLICATE_LARGER_THAN`
IsInline(c) == c.len < DEDUPLICATE_LARGER_THAN

\* Mutant of BlobPath: every blob under one name.
BlobPath_Flat(hash) == LargeFiles \o <<"blob">>

\* copy_into: `format!("{}/large_files/{hash}", self.cache)`
BlobPath(hash) == LargeFiles \o <<hash>>

\* copy_into, for a regular file (lines 99 to 131).
copy_regular(f, from, to) ==
  LET c == f[from].data IN
  IF IsPointer(c) /\ c.tail \notin HexNames
    THEN Failed(f)
    ELSE LET copy_from == IF IsPointer(c) THEN BlobPath(c.tail) ELSE from
         IN IF IsInline(c)
              THEN fs_copy_file(f, copy_from, to)
              ELSE LET hash == Blake3(c)
                       w == fs_write_file(f, to, PointerRecord(hash))
                   IN IF w.ok THEN fs_copy_file(w.fs, copy_from, BlobPath(hash))
                      ELSE w

\* Mutant of copy_missing: a source that does not exist is an error.
copy_missing_Err(f) == Failed(f)

\* copy_into: `if !self.fs.exists(from)? { return Ok(()); }`
copy_missing(f) == Done(f)

\* Cache::copy_into; rev is the order read_dir lists in.
RECURSIVE copy_into(_, _, _, _)
RECURSIVE copy_entries(_, _, _, _, _)
copy_into(f, from, to, rev) ==
  IF ~Exists(f, from) THEN copy_missing(f)
  ELSE IF f[from].dir
    THEN LET r == create_dir_all(f, to)
         IN IF r.ok THEN copy_entries(r.fs, from, to, ReadDir(r.fs, from, rev), rev) ELSE r
    ELSE copy_regular(f, from, to)
\* copy_into: `for file in self.fs.read_dir(from)? { self.copy_into(..)?; }`
copy_entries(f, from, to, files, rev) ==
  IF files = <<>> THEN Done(f)
  ELSE LET r == copy_into(f, from \o <<Head(files)>>, to \o <<Head(files)>>, rev)
       IN IF r.ok THEN copy_entries(r.fs, from, to, Tail(files), rev) ELSE r

\* Cache::save: where the path is copied from and to.
SaveFrom(p) == IF p.abs THEN p.comps ELSE Pwd \o p.comps
SaveTo(p) == IF p.abs THEN CacheRoot \o <<"absolute">> \o p.comps
             ELSE CacheRoot \o <<"relative">> \o p.comps

\* Mutant of save: the destination directory is made before the source is
\* looked at.
save_Eager(f, p, rev) ==
  LET l == create_dir_all(f, LargeFiles)
      r == IF l.ok THEN create_dir_all(l.fs, SaveTo(p)) ELSE l
  IN IF r.ok THEN copy_into(r.fs, SaveFrom(p), SaveTo(p), rev) ELSE r

\* Cache::save
save(f, p, rev) ==
  LET r == create_dir_all(f, LargeFiles)
  IN IF r.ok THEN copy_into(r.fs, SaveFrom(p), SaveTo(p), rev) ELSE r

\* Mutant of load: a failed load puts the filesystem back as it was.
load_Rollback(f, rev) ==
  LET r == copy_into(f, CacheRoot \o <<"absolute">>, Root, rev)
      t == IF r.ok THEN copy_into(r.fs, CacheRoot \o <<"relative">>, Pwd, rev) ELSE r
  IN IF t.ok THEN t ELSE Failed(f)

\* Cache::load
load(f, rev) ==
  LET r == copy_into(f, CacheRoot \o <<"absolute">>, Root, rev)
  IN IF r.ok THEN copy_into(r.fs, CacheRoot \o <<"relative">>, Pwd, rev) ELSE r

\* The filesystem before any source file is there: "/" and the working
\* directory.
BaseFs == (Root :> DirNode) @@ (Pwd :> DirNode)

\* A filesystem with the directories down to p and file n at p.
RECURSIVE WithDirs(_, _)
WithDirs(f, p) ==
  IF Exists(f, p) THEN f ELSE Put(WithDirs(f, Parent(p)), p, DirNode)
WithFile(f, p, n) == Put(WithDirs(f, Parent(p)), p, n)

\* The filesystems the cache is tried on: at most MaxFiles source files.
RECURSIVE Populate(_, _)
Populate(f, choice) ==
  IF DOMAIN choice = {} THEN f
  ELSE LET p == CHOOSE q \in DOMAIN choice : TRUE
       IN Populate(WithFile(f, p, choice[p]), [q \in (DOMAIN choice) \ {p} |-> choice[q]])
InitialFs ==
  {Populate(BaseFs, choice) :
     choice \in UNION {[S -> FileKinds] : S \in {T \in SUBSET FilePaths : Cardinality(T) <= MaxFiles}}}

\* ------------------------------------------------- target addresses (target.rs)
\* Longest string typed in for parsing, and longest package and identifier of
\* an address that is displayed.
MaxStr == 4
MaxPart == 2

\* Strings are sequences of characters; the characters tried.
Alphabet == {"/", ":", "a"}
RECURSIVE StringsUpTo(_)
StringsUpTo(n) ==
  IF n = 0 THEN {<<>>}
  ELSE StringsUpTo(n - 1) \cup
       {Append(s, ch) : s \in {t \in StringsUpTo(n - 1) : Len(t) = n - 1}, ch \in Alphabet}

\* str::split(':'): the parts between the colons, in order (one part, the
\* whole string, when there is no colon).
RECURSIVE Split(_)
Split(s) ==
  IF \A i \in 1..Len(s) : s[i] # ":" THEN <<s>>
  ELSE LET k == Min({i \in 1..Len(s) : s[i] = ":"})
       IN <<SubSeq(s, 1, k - 1)>> \o Split(SubSeq(s, k + 1, Len(s)))

\* Option<&str>
None == [some |-> FALSE, val |-> <<>>]
Some(v) == [some |-> TRUE, val |-> v]

\* Mutant of strip_prefix: every leading '/' is taken off
\* (trim_start_matches).
RECURSIVE TrimSlashes(_)
TrimSlashes(s) == IF s # <<>> /\ Head(s) = "/" THEN TrimSlashes(Tail(s)) ELSE s
strip_prefix_Trim(s, p) ==
  IF Len(s) >= Len(p) /\ SubSeq(s, 1, Len(p)) = p THEN Some(TrimSlashes(s)) ELSE None

\* str::strip_prefix
strip_prefix(s, p) ==
  IF Len(s) >= Len(p) /\ SubSeq(s, 1, Len(p)) = p
    THEN Some(SubSeq(s, Len(p) + 1, Len(s)))
    ELSE None

\* TargetAddress and Result<TargetAddress, TargetParseError>
TargetAddress(package, identifier) == [package |-> package, identifier |-> identifier]
NoAddress == [package |-> <<"?">>, identifier |-> <<"?">>]
ParseOk(a) == [ok |-> TRUE, addr |-> a, err |-> ""]
ParseErr(e) == [ok |-> FALSE, addr |-> NoAddress, err |-> e]
NoParse == [ok |-> FALSE, addr |-> NoAddress, err |-> "not parsed"]

\* <TargetAddress as FromStr>::from_str
from_str(s) ==
  LET split == Split(s)
      package == split[1]
  IN IF package = <<>> THEN ParseErr("MissingPackage")
     ELSE LET stripped == strip_prefix(package, <<"/", "/">>)
          IN IF ~stripped.some THEN ParseErr("PackageMustBeAbsolute")
             ELSE IF Len(split) < 2 THEN ParseErr("MissingTask")
             ELSE ParseOk(TargetAddress(stripped.val, split[2]))

\* <TargetAddress as Display>::fmt: "//{package}:{identifier}"
Display(a) == <<"/", "/">> \o a.package \o <<":">> \o a.identifier

\* The addresses displayed.
Addresses ==
  {TargetAddress(p, i) : p \in StringsUpTo(MaxPart), i \in StringsUpTo(MaxPart)}

\* Nothing typed, displayed or parsed yet.
AddrNew == addr = [text |-> <<>>, shown |-> NoAddress, parsed |-> NoParse]

Init ==
  /\ max_threads \in 1..MaxK
  /\ RunnerNew
  /\ fs = BaseFs
  /\ hist = <<>>
  /\ AddrNew

\* ----------------------------------------------------------- the runner
\* Mutant of Full: run() always waits for a completion.
Full_Always == TRUE

\* Mutant of Full: the test written with > for >=.
Full_Strict == Cardinality(DOMAIN handles) > max_threads

\* run: `self.handles.len() >= self.max_threads`
Full == Cardinality(DOMAIN handles) >= max_threads

\* run: the slots `(0..self.max_threads)` that `!self.handles.contains_key(n)`
FreeSlots == {n \in 0..(max_threads - 1) : n \notin DOMAIN handles}

\* Mutant of FreeSlot: the highest free slot is taken.
FreeSlot_Highest == CHOOSE x \in FreeSlots : \A y \in FreeSlots : x >= y

\* run: `.find(..)`: the first of them
FreeSlot == Min(FreeSlots)

\* Mutant of TryRecvReady: run() without its non-blocking drain.
TryRecvReady_Never == FALSE

\* check_finished: `while let Ok(..) = self.receiver.try_recv()`
TryRecvReady == chan # <<>>

\* Mutant of Recv: the newest message is taken first.
Recv_Newest(q) == q[Len(q)]

\* Receiver::try_recv / recv: the oldest message in the channel.
Recv(q) == Head(q)

\* Mutant of CheckFinishedFails: the drained result is ignored.
CheckFinishedFails_Never(r) == FALSE

\* check_finished: `if let Err(e) = r { return Err((name, e)) }`
CheckFinishedFails(r) == ~r.ok

\* Mutant of AllReceived: the loop ends one completion early.
AllReceived_OffByOne == Cardinality(DOMAIN handles) <= 1

\* wait_receive_all: `if self.handles.len() == 0 { return Ok(()) }`
AllReceived == Cardinality(DOMAIN handles) = 0

\* Mutant of ClearedHandles: into_wait without the clear.
ClearedHandles_Kept == handles

\* into_wait: `self.handles.clear()`
ClearedHandles == Empty

\* Mutant of FinishedName: the name of the lowest occupied slot.
FinishedName_First(id) == names[Min(DOMAIN names)]

\* on_finished: `self.names.remove(&id)`, the name removed.
FinishedName(id) == names[id]

\* Mutant of on_finished: the name stays in the name table.
on_finished_stale(m) ==
  /\ handles' = Without(handles, m.id)
  /\ names' = names
  /\ progress' = Append(progress, [ev |-> "finish", name |-> FinishedName(m.id), uid |-> m.uid])
  /\ order' = Append(order, [uid |-> m.uid, id |-> m.id, op |-> pc, by |-> call.uid])

\* Mutant of on_finished: the listener is told twice.
on_finished_twice(m) ==
  /\ handles' = Without(handles, m.id)
  /\ names' = Without(names, m.id)
  /\ progress' = progress \o <<[ev |-> "finish", name |-> FinishedName(m.id), uid |-> m.uid],
                               [ev |-> "finish", name |-> FinishedName(m.id), uid |-> m.uid]>>
  /\ order' = Append(order, [uid |-> m.uid, id |-> m.id, op |-> pc, by |-> call.uid])

\* Mutant of on_finished: the listener is not told.
on_finished_quiet(m) ==
  /\ handles' = Without(handles, m.id)
  /\ names' = Without(names, m.id)
  /\ progress' = progress
  /\ order' = Append(order, [uid |-> m.uid, id |-> m.id, op |-> pc, by |-> call.uid])

\* on_finished(id), for an id the name table holds: both tables lose the slot
\* and the listener is told the name.  m is the message received; its uid (the
\* identity of the task that sent it) is carried in the model only.
on_finished(m) ==
  /\ handles' = Without(handles, m.id)
  /\ names' = Without(names, m.id)
  /\ progress' = Append(progress, [ev |-> "finish", name |-> FinishedName(m.id), uid |-> m.uid])
  /\ order' = Append(order, [uid |-> m.uid, id |-> m.id, op |-> pc, by |-> call.uid])

\* on_finished(id) for an id the name table lacks: expect() panics after the
\* handle has been removed.
on_finished_missing(m) ==
  /\ handles' = Without(handles, m.id)
  /\ pc' = "panic"
  /\ UNCHANGED <<names, progress, rets, order, call, iw_r, alive>>

\* The caller calls run(name, f), where f will return Ok (isOk) or its Err.
Run(name, isOk) ==
  /\ pc = "idle"
  /\ Len(tasks) < MaxTasks
  /\ LET uid == Len(tasks) + 1
         res == IF isOk THEN OkRes ELSE ErrRes(uid)
     IN /\ tasks' = Append(tasks, [name |-> name, res |-> res])
        /\ call' = [name |-> name, res |-> res, uid |-> uid, pend |-> FirstErr(chan)]
  /\ pc' = "check"
  /\ UNCHANGED <<addr, fs, hist, max_threads, handles, names, chan, alive, progress, threads,
                 lost, iw_r, started, rets, order, arrived>>

\* check_finished: one iteration of `while let Ok((id, r)) = try_recv()`.
\* With nothing to receive the loop ends and run goes on to its test of
\* handles.len().
CheckFinished ==
  /\ pc = "check"
  /\ IF ~TryRecvReady
       THEN /\ pc' = IF Full THEN "wait_one" ELSE "spawn"
            /\ UNCHANGED <<handles, names, chan, progress, rets, call, order>>
       ELSE LET m == Recv(chan) IN
            /\ chan' = Tail(chan)
            /\ IF m.id \notin DOMAIN names
                 THEN on_finished_missing(m)
                 ELSE /\ on_finished(m)
                      /\ IF CheckFinishedFails(m.r)
                           THEN /\ rets' = Append(rets, Ret("run", call, m.r, FinishedName(m.id)))
                                /\ pc' = "idle"
                                /\ call' = NoCall
                           ELSE UNCHANGED <<pc, rets, call>>
  /\ UNCHANGED <<addr, fs, hist, max_threads, alive, threads, lost, iw_r, tasks, started, arrived>>

\* run: `self.wait_receive_one()?` taken when every slot is occupied; recv()
\* blocks until a message is there.
RunWaitOne ==
  /\ pc = "wait_one"
  /\ chan # <<>>
  /\ LET m == Recv(chan) IN
     /\ chan' = Tail(chan)
     /\ IF m.id \notin DOMAIN names
          THEN on_finished_missing(m)
          ELSE /\ on_finished(m)
               /\ IF m.r.ok
                    THEN pc' = "spawn" /\ UNCHANGED <<rets, call>>
                    ELSE /\ rets' = Append(rets, Ret("run", call, m.r, FinishedName(m.id)))
                         /\ pc' = "idle"
                         /\ call' = NoCall
  /\ UNCHANGED <<addr, fs, hist, max_threads, alive, threads, lost, iw_r, tasks, started, arrived>>

\* run: the free slot is found (unwrap() panics when there is none) and the
\* thread is spawned into it.
Spawn ==
  /\ pc = "spawn"
  /\ IF FreeSlots = {}
       THEN /\ pc' = "panic"
            /\ UNCHANGED <<handles, threads, started>>
       ELSE /\ handles' = With(handles, FreeSlot, call.uid)
            /\ threads' = threads \cup {[uid |-> call.uid, id |-> FreeSlot, res |-> call.res]}
            /\ started' = started \cup {call.uid}
            /\ pc' = "on_start"
  /\ UNCHANGED <<addr, fs, hist, max_threads, names, chan, alive, progress, lost, call, iw_r,
                 tasks, rets, order, arrived>>

\* run: on_start(name), names.insert(id, name), Ok(()).
OnStart ==
  /\ pc = "on_start"
  /\ progress' = Append(progress, [ev |-> "start", name |-> call.name, uid |-> call.uid])
  /\ names' = With(names, CHOOSE id \in DOMAIN handles : handles[id] = call.uid, call.name)
  /\ rets' = Append(rets, Ret("run", call, OkRes, ""))
  /\ pc' = "idle"
  /\ call' = NoCall
  /\ UNCHANGED <<addr, fs, hist, max_threads, handles, chan, alive, threads, lost, iw_r, tasks,
                 started, order, arrived>>

\* The worker closure: `sender.send((id, f())).unwrap()`.  The send fails, and
\* the worker panics, once the Receiver has been dropped.
WorkerFinish(t) ==
  /\ t \in threads
  /\ threads' = threads \ {t}
  /\ IF alive
       THEN /\ chan' = Append(chan, [id |-> t.id, r |-> t.res, uid |-> t.uid])
            /\ arrived' = Append(arrived, t.uid)
            /\ UNCHANGED lost
       ELSE /\ lost' = lost \cup {t.uid}
            /\ UNCHANGED <<chan, arrived>>
  /\ UNCHANGED <<addr, fs, hist, max_threads, handles, names, alive, progress, pc, call, iw_r,
                 tasks, started, rets, order>>

\* The caller calls into_wait(self).
IntoWait ==
  /\ pc = "idle"
  /\ pc' = "into_wait"
  /\ UNCHANGED <<addr, fs, hist, max_threads, handles, names, chan, alive, progress, threads,
                 lost, call, iw_r, tasks, started, rets, order, arrived>>

\* The caller drops the ParRunner: Drop::drop runs wait_receive_all.
Drop ==
  /\ pc = "idle"
  /\ pc' = "drop"
  /\ UNCHANGED <<addr, fs, hist, max_threads, handles, names, chan, alive, progress, threads,
                 lost, call, iw_r, tasks, started, rets, order, arrived>>

\* wait_receive_all, called by into_wait and by drop: one turn of its loop.
\* The `?` ends the loop at the first Err.  into_wait keeps the result in r;
\* drop discards it (`let _ =`), and the fields, the Receiver among them, are
\* dropped after it.  An into_wait in progress returns its r once the drop of
\* the consumed self is over.
WaitReceiveAll ==
  /\ pc \in {"into_wait", "drop"}
  /\ IF AllReceived
       THEN /\ IF pc = "into_wait"
                 THEN /\ pc' = "iw_clear"
                      /\ iw_r' = Ret("into_wait", NoCall, OkRes, "")
                      /\ UNCHANGED <<alive, rets>>
                 ELSE /\ pc' = "gone"
                      /\ alive' = FALSE
                      /\ rets' = Append(rets, IF iw_r.op = "into_wait" THEN iw_r
                                              ELSE Ret("drop", NoCall, OkRes, ""))
                      /\ UNCHANGED iw_r
            /\ UNCHANGED <<handles, names, chan, progress, order>>
       ELSE /\ chan # <<>>
            /\ LET m == Recv(chan) IN
               /\ chan' = Tail(chan)
               /\ IF m.id \notin DOMAIN names
                    THEN on_finished_missing(m)
                    ELSE /\ on_finished(m)
                         /\ IF m.r.ok
                              THEN UNCHANGED <<pc, rets, alive, iw_r>>
                              ELSE IF pc = "into_wait"
                                     THEN /\ pc' = "iw_clear"
                                          /\ iw_r' = Ret("into_wait", NoCall, m.r, FinishedName(m.id))
                                          /\ UNCHANGED <<alive, rets>>
                                     ELSE /\ pc' = "gone"
                                          /\ alive' = FALSE
                                          /\ rets' = Append(rets, IF iw_r.op = "into_wait" THEN iw_r
                                                                  ELSE Ret("drop", NoCall, OkRes, ""))
                                          /\ UNCHANGED iw_r
  /\ UNCHANGED <<addr, fs, hist, max_threads, threads, lost, call, tasks, started, arrived>>

\* into_wait: `self.handles.clear(); r`: the consumed self is dropped as
\* into_wait returns.
IntoWaitClear ==
  /\ pc = "iw_clear"
  /\ handles' = ClearedHandles
  /\ pc' = "drop"
  /\ UNCHANGED <<addr, fs, hist, max_threads, names, chan, alive, progress, threads, lost, call,
                 iw_r, tasks, started, rets, order, arrived>>

Next ==
  \/ \E name \in Names, isOk \in BOOLEAN : Run(name, isOk)
  \/ CheckFinished
  \/ RunWaitOne
  \/ Spawn
  \/ OnStart
  \/ \E t \in threads : WorkerFinish(t)
  \/ IntoWait
  \/ Drop
  \/ WaitReceiveAll
  \/ IntoWaitClear

Spec == Init /\ [][Next]_vars

\* The operating system runs every worker thread and the submitting context;
\* the owner of the ParRunner ends by into_wait or by dropping it.
Fairness ==
  /\ WF_vars(CheckFinished)
  /\ WF_vars(RunWaitOne)
  /\ WF_vars(Spawn)
  /\ WF_vars(OnStart)
  /\ WF_vars(\E t \in threads : WorkerFinish(t))
  /\ WF_vars(WaitReceiveAll)
  /\ WF_vars(IntoWaitClear)
  /\ WF_vars(IntoWait \/ Drop)

FairSpec == Init /\ [][Next]_vars /\ Fairness

\* ------------------------------------------------------ the cache's steps
\* One cache operation, as hist records it: pre is the filesystem before it.
Op(op, p, ok) == [op |-> op, path |-> p, ok |-> ok, pre |-> fs]
NoPath == SavePath(TRUE, <<>>)

CacheInit ==
  /\ max_threads = 1
  /\ RunnerNew
  /\ fs \in InitialFs
  /\ hist = <<>>
  /\ AddrNew

runner == <<max_threads, handles, names, chan, alive, progress, threads, lost,
            pc, call, iw_r, tasks, started, rets, order, arrived>>

\* cache.save(path), with read_dir listing in either order.
Save(p, rev) ==
  /\ Len(hist) < MaxOps
  /\ LET r == save(fs, p, rev)
     IN /\ fs' = r.fs
        /\ hist' = Append(hist, Op("save", p, r.ok))
  /\ UNCHANGED <<runner, addr>>

\* cache.load()
Load(rev) ==
  /\ Len(hist) < MaxOps
  /\ LET r == load(fs, rev)
     IN /\ fs' = r.fs
        /\ hist' = Append(hist, Op("load", NoPath, r.ok))
  /\ UNCHANGED <<runner, addr>>

\* The user deletes the original of what was just saved: the file, or the
\* directory with all that is in it.
DeleteOriginal ==
  /\ Len(hist) < MaxOps
  /\ hist # <<>>
  /\ hist[Len(hist)].op = "save"
  /\ LET p == hist[Len(hist)].path
     IN /\ fs' = [q \in {x \in DOMAIN fs : ~IsPrefix(SaveFrom(p), x)} |-> fs[q]]
        /\ hist' = Append(hist, Op("delete", p, TRUE))
  /\ UNCHANGED <<runner, addr>>

CacheNext ==
  \/ \E p \in SavePaths, rev \in BOOLEAN : Save(p, rev)
  \/ \E rev \in BOOLEAN : Load(rev)
  \/ DeleteOriginal

CacheSpec == CacheInit /\ [][CacheNext]_vars

\* ------------------------------------------- steps on a cache already filled
\* The cache after save("/src") and save("out") on a filesystem.
WarmCache(f) ==
  save(save(f, SavePath(TRUE, <<"src">>), FALSE).fs, SavePath(FALSE, <<"out">>), FALSE).fs

WarmInit ==
  /\ max_threads = 1
  /\ RunnerNew
  /\ fs \in {WarmCache(f) : f \in InitialFs}
  /\ hist = <<>>
  /\ AddrNew

\* The user deletes a saved file or tree.
DeleteTree(p) ==
  /\ Len(hist) < MaxOps
  /\ Exists(fs, SaveFrom(p))
  /\ fs' = [q \in {x \in DOMAIN fs : ~IsPrefix(SaveFrom(p), x)} |-> fs[q]]
  /\ hist' = Append(hist, Op("delete", p, TRUE))
  /\ UNCHANGED <<runner, addr>>

\* Something other than the Cache damages a file under absolute/ or
\* relative/: it now has the length and the prefix of a pointer record and a
\* tail that is no hex.
Tamper(q) ==
  /\ Len(hist) < MaxOps
  /\ IsFile(fs, q)
  /\ IsPrefix(CacheRoot \o <<"absolute">>, q) \/ IsPrefix(CacheRoot \o <<"relative">>, q)
  /\ fs[q].data # PtrBad
  /\ fs' = Put(fs, q, FileNode(PtrBad, fs[q].mode))
  /\ hist' = Append(hist, Op("tamper", NoPath, TRUE))
  /\ UNCHANGED <<runner, addr>>

WarmNext ==
  \/ \E rev \in BOOLEAN : Load(rev)
  \/ \E p \in SavePaths : DeleteTree(p)
  \/ \E q \in DOMAIN fs : Tamper(q)

WarmSpec == WarmInit /\ [][WarmNext]_vars

\* ------------------------------------------------- target addresses' steps
AddrInit ==
  /\ max_threads = 1
  /\ RunnerNew
  /\ fs = BaseFs
  /\ hist = <<>>
  /\ AddrNew

\* One more character of the string that will be parsed.
TypeChar(ch) ==
  /\ addr.shown = NoAddress /\ addr.parsed = NoParse
  /\ Len(addr.text) < MaxStr
  /\ addr' = [addr EXCEPT !.text = Append(addr.text, ch)]
  /\ UNCHANGED <<runner, fs, hist>>

\* address.to_string()
Format(a) ==
  /\ addr.text = <<>> /\ addr.shown = NoAddress /\ addr.parsed = NoParse
  /\ addr' = [addr EXCEPT !.text = Display(a), !.shown = a]
  /\ UNCHANGED <<runner, fs, hist>>

\* text.parse::<TargetAddress>()
Parse ==
  /\ addr.parsed = NoParse
  /\ addr' = [addr EXCEPT !.parsed = from_str(addr.text)]
  /\ UNCHANGED <<runner, fs, hist>>

AddrNext ==
  \/ \E ch \in Alphabet : TypeChar(ch)
  \/ \E a \in Addresses : Format(a)
  \/ Parse

AddrSpec == AddrInit /\ [][AddrNext]_vars

\* --------------------------------------------------- the runner's claims
Last(q) == q[Len(q)]

\* Tasks whose completion has been received.
Drained == {order[i].uid : i \in 1..Len(order)}
\* Tasks started and not yet drained.
Undrained == started \ Drained
\* The listener's calls for one task.
StartsOf(u) == {i \in 1..Len(progress) : progress[i].ev = "start" /\ progress[i].uid = u}
FinishesOf(u) == {i \in 1..Len(progress) : progress[i].ev = "finish" /\ progress[i].uid = u}
\* The task's operation returns an error.
Fails(u) == ~tasks[u].res.ok
\* The scheduler still lives and is not in the middle of a teardown.
Usable == pc \in {"idle", "check", "wait_one", "spawn", "on_start"}

\* C1: with bound K >= 1, the tasks started and not yet drained never number
\* more than K, neither do the occupied slots nor the operations executing,
\* and run() spawns only while fewer than K tasks are undrained.
C1_BoundedConcurrency ==
  /\ Cardinality(Undrained) <= max_threads
  /\ Cardinality(DOMAIN handles) <= max_threads
  /\ {t.uid : t \in threads} \subseteq Undrained
  /\ Cardinality(threads) <= max_threads
  /\ pc = "spawn" => Cardinality(Undrained) < max_threads
  /\ Usable => Cardinality(DOMAIN handles) = Cardinality(Undrained)

\* A (K+1)-th task has been started, after a drain, with K again undrained.
C1_Witness ==
  /\ Cardinality(started) > max_threads
  /\ Cardinality(Undrained) = max_threads
  /\ pc = "idle"

\* C2: a run() that drains an errored completion, in its non-blocking drain
\* or in its blocking wait, returns Err((failed task's name, its error)) and
\* its own op is never started: no thread, no slot, no on_start.
C2_FailFastRun ==
  \A i \in 1..Len(order) :
    LET d == order[i] IN
    (d.op \in {"check", "wait_one"} /\ Fails(d.uid)) =>
      /\ d.by \notin started
      /\ StartsOf(d.by) = {}
      /\ \A s \in DOMAIN handles : handles[s] # d.by
      /\ \A t \in threads : t.uid # d.by
      /\ \E j \in 1..Len(rets) :
           /\ rets[j].op = "run" /\ rets[j].uid = d.by /\ ~rets[j].ok
           /\ rets[j].name = tasks[d.uid].name
           /\ rets[j].err = tasks[d.uid].res.err

\* An error was drained by the blocking wait of a run(), and the caller has
\* made a further call since.
C2_Witness ==
  \E i \in 1..Len(order) :
    /\ order[i].op = "wait_one" /\ Fails(order[i].uid)
    /\ Len(tasks) > order[i].by
    /\ pc = "idle"

\* The run() calls that have returned, and the previous task of each.
RunRets == {i \in 1..Len(rets) : rets[i].op = "run"}
IsErrOf(ret, u) == ~ret.ok /\ ret.err = u /\ ret.name = tasks[u].name

\* C3 as stated: whenever a started task returns an error, the next run() call
\* the caller makes returns Err((that task's name, that error)).
C3_NextRunAlwaysFails ==
  \A i \in RunRets :
    LET u == rets[i].uid - 1 IN
    (u >= 1 /\ u \in started /\ Fails(u)) => IsErrOf(rets[i], u)

\* C3 amended: the next run() returns the error of a failed task when that
\* task's completion is the first errored completion waiting in the channel
\* as run() is called, and always when K = 1 (run() then blocks for it).
C3_NextRunFailsWhenArrived ==
  \A i \in RunRets :
    LET u == rets[i].uid - 1 IN
    /\ rets[i].pend # 0 => IsErrOf(rets[i], rets[i].pend)
    /\ (max_threads = 1 /\ u >= 1 /\ u \in started /\ Fails(u)) => IsErrOf(rets[i], u)

\* With a free slot for the new task, run() returned the error that was
\* waiting in the channel.
C3_Witness ==
  \E i \in RunRets :
    /\ rets[i].pend # 0
    /\ max_threads > 1
    /\ Cardinality(started) < max_threads
    /\ IsErrOf(rets[i], rets[i].pend)

\* C4: once a run() call has returned an error, no task submitted by a later
\* run() call is ever started.
C4_NothingStartsAfterError ==
  \A i \in RunRets :
    ~rets[i].ok => \A u \in started : u < rets[i].uid

\* C5 as stated, at the end of the scheduler's life: every task that was
\* started has had exactly one on_finish.
C5_AllFinishedAtEnd ==
  pc = "gone" => \A u \in started : Cardinality(FinishesOf(u)) = 1

\* Teardown stopped at an errored completion with task u still undrained.
Abandoned(u) ==
  /\ pc = "gone"
  /\ u \in Undrained
  /\ order # <<>>
  /\ Last(order).op \in {"into_wait", "drop"}
  /\ Fails(Last(order).uid)

\* At most one on_finish per task, under the name of its on_start and after
\* it; one for each drained task.
PairedSoFar ==
  \A u \in 1..Len(tasks) :
    /\ Cardinality(FinishesOf(u)) <= 1
    /\ Cardinality(StartsOf(u)) <= 1
    /\ u \in Drained <=> FinishesOf(u) # {}
    /\ \A f \in FinishesOf(u) : \E b \in StartsOf(u) :
         b < f /\ progress[b].name = progress[f].name

\* C5 amended: every on_start is followed by at most one on_finish of that
\* task, and eventually by exactly one unless the teardown stops at an errored
\* completion (into_wait returning it, drop discarding it) while the task is
\* still undrained.
C5_PairedUnlessAbandoned ==
  /\ []PairedSoFar
  /\ []<>(\A u \in 1..Len(tasks) :
            StartsOf(u) # {} => (Cardinality(FinishesOf(u)) = 1 \/ Abandoned(u)))

\* A task drained inside a later run() has its pair, and so has one drained
\* by the teardown.
C5_Witness ==
  /\ pc = "gone"
  /\ \E i, j \in 1..Len(order) :
       /\ order[i].op = "check" /\ Cardinality(FinishesOf(order[i].uid)) = 1
       /\ order[j].op = "drop" /\ Cardinality(FinishesOf(order[j].uid)) = 1

\* C6: a drop with tasks in flight ends only once every in-flight result has
\* been drained: all slots free, an on_finish for each started task.
C6_DropDrainsAll ==
  (pc = "gone" /\ Last(rets).op = "drop") =>
    /\ DOMAIN handles = {}
    /\ Undrained = {}
    /\ \A u \in started : Cardinality(FinishesOf(u)) = 1

\* into_wait() has returned Ok(()).
IntoWaitOk == pc = "gone" /\ Last(rets).op = "into_wait" /\ Last(rets).ok

\* C7: if into_wait() returns Ok(()), nothing is left undrained, no slot is
\* occupied, each started task had its on_finish and every result into_wait
\* drained was Ok; if no undrained task fails, into_wait() does return Ok(()).
C7_IntoWaitOk ==
  /\ [](IntoWaitOk =>
          /\ Undrained = {}
          /\ DOMAIN handles = {}
          /\ \A u \in started : Cardinality(FinishesOf(u)) = 1
          /\ \A j \in 1..Len(order) : order[j].op = "into_wait" => ~Fails(order[j].uid))
  /\ (pc = "into_wait" /\ \A u \in Undrained : ~Fails(u)) ~> IntoWaitOk

\* into_wait() returned Ok(()) after draining two completions itself.
C7_Witness ==
  /\ IntoWaitOk
  /\ Cardinality({j \in 1..Len(order) : order[j].op = "into_wait"}) >= 2

\* into_wait() has returned an error.
IntoWaitErr == pc = "gone" /\ Last(rets).op = "into_wait" /\ ~Last(rets).ok

\* C8: into_wait() returns the first errored completion in arrival order as
\* soon as it drains it; nothing is drained after it, neither by into_wait
\* nor by the drop of the consumed scheduler.
C8_IntoWaitStopsAtError ==
  IntoWaitErr =>
    /\ order # <<>>
    /\ Last(order).uid = Last(rets).err
    /\ Last(order).op = "into_wait"
    /\ Last(rets).name = tasks[Last(rets).err].name
    /\ \A j \in 1..(Len(order) - 1) : order[j].op = "into_wait" => ~Fails(order[j].uid)
    /\ Len(order) <= Len(arrived)
    /\ \A j \in 1..Len(order) : order[j].uid = arrived[j]

\* into_wait() has returned its error while another task is still running.
C8_Witness == IntoWaitErr /\ threads # {} /\ Undrained # {}

\* C9: an Err((n, e)) returned by run() or into_wait() carries the name given
\* to the run() call that started the task whose operation returned e.
C9_ErrorNamesItsTask ==
  \A i \in 1..Len(rets) :
    ~rets[i].ok =>
      /\ rets[i].err \in started
      /\ tasks[rets[i].err].res = ErrRes(rets[i].err)
      /\ rets[i].name = tasks[rets[i].err].name

\* The failed task ran in a slot that an earlier task of another name had
\* used, and another slot held another name.
C9_Witness ==
  \E i \in 1..Len(rets), j, k \in 1..Len(order) :
    /\ ~rets[i].ok
    /\ j < k
    /\ order[k].uid = rets[i].err
    /\ order[j].id = order[k].id
    /\ tasks[order[j].uid].name # rets[i].name

\* --------------------------------------------------- the cache's claims
\* The filesystem after the i-th cache operation.
After(i) == IF i = Len(hist) THEN fs ELSE hist[i + 1].pre
\* The regular files at or under a path.
FilesUnder(f, p) == {q \in DOMAIN f : ~f[q].dir /\ IsPrefix(p, q)}
\* Operations i, i+1, i+2 are save(path), the deletion of the original, load().
RoundTripAt(i) ==
  /\ i + 2 <= Len(hist)
  /\ hist[i].op = "save"
  /\ hist[i + 1].op = "delete" /\ hist[i + 1].path = hist[i].path
  /\ hist[i + 2].op = "load"
\* Every file that was at or under the saved path is back with its bytes.
Restored(i) ==
  \A q \in FilesUnder(hist[i].pre, SaveFrom(hist[i].path)) :
    IsFile(After(i + 2), q) /\ After(i + 2)[q].data = hist[i].pre[q].data

\* C10 as stated: save(path), deletion of the original, load() restores every
\* file of the saved file or tree with the same bytes.
C10_RoundTripAlways ==
  \A i \in 1..Len(hist) : RoundTripAt(i) => (hist[i + 2].ok /\ Restored(i))

\* Why save(path) fails in a round trip: a file in the tree has the length and
\* the prefix of a pointer record, or path names a regular file whose mirrored
\* parent directory the cache does not hold yet.
SaveCannotStore(i) ==
  LET f == hist[i].pre
      p == hist[i].path
  IN \/ \E q \in FilesUnder(f, SaveFrom(p)) : IsPointer(f[q].data)
     \/ IsFile(f, SaveFrom(p)) /\ ~IsDir(f, Parent(SaveTo(p)))

\* What the code does guarantee of a round trip: every file is restored with
\* the same bytes whenever save(path) returned success; save returns an error
\* only for a tree holding a pointer-shaped file or for a regular file whose
\* mirrored parent directory is missing, and always for a pointer-shaped file
\* whose tail is no hex.
RoundTripIfSaved ==
  \A i \in 1..Len(hist) :
    RoundTripAt(i) =>
      /\ hist[i].ok => (hist[i + 2].ok /\ Restored(i))
      /\ ~hist[i].ok => SaveCannotStore(i)
      /\ (\E q \in FilesUnder(hist[i].pre, SaveFrom(hist[i].path)) :
            hist[i].pre[q].data = PtrBad) => ~hist[i].ok

\* A tree with a nested directory, a deduplicated file and an inline file
\* went through save, deletion and load.
RoundTripOfTree ==
  \E i \in 1..Len(hist) :
    /\ RoundTripAt(i) /\ hist[i].ok
    /\ \E q, r \in FilesUnder(hist[i].pre, SaveFrom(hist[i].path)) :
         /\ ~IsInline(hist[i].pre[q].data)
         /\ IsInline(hist[i].pre[r].data)
         /\ Len(q) > Len(r)
    /\ FilesUnder(hist[i + 1].pre, SaveFrom(hist[i].path)) # {}
    /\ FilesUnder(hist[i + 2].pre, SaveFrom(hist[i].path)) = {}

\* The blobs: the files directly under large_files/.
Blobs(f) == {q \in DOMAIN f : Parent(q) = LargeFiles /\ Len(q) > 0 /\ ~f[q].dir}
\* The files under the cache root, and the sum of their lengths.
CacheFiles(f) == {q \in DOMAIN f : IsPrefix(CacheRoot, q) /\ ~f[q].dir}
RECURSIVE SumLen(_, _)
SumLen(f, S) ==
  IF S = {} THEN 0
  ELSE LET q == CHOOSE x \in S : TRUE IN f[q].data.len + SumLen(f, S \ {q})
CacheBytes(f) == SumLen(f, CacheFiles(f))
\* The i-th operation is a save that returned success.
SavedOk(i) == hist[i].op = "save" /\ hist[i].ok
\* The files the i-th operation, a save, was given.
SavedFiles(i) == FilesUnder(hist[i].pre, SaveFrom(hist[i].path))
\* The contents of 1024 bytes or more among the files saved so far.
SavedLarge ==
  {c \in UNION {{hist[i].pre[q].data : q \in SavedFiles(i)} :
                 i \in {j \in 1..Len(hist) : SavedOk(j)}} : ~IsInline(c)}
\* The first operation saved, into an empty cache, N >= 2 files that all hold
\* the same content of 1024 bytes or more.
SavedDuplicates ==
  /\ hist # <<>>
  /\ SavedOk(1)
  /\ ~Exists(hist[1].pre, CacheRoot)
  /\ Cardinality(SavedFiles(1)) >= 2
  /\ \E c \in SavedLarge : \A q \in SavedFiles(1) : hist[1].pre[q].data = c

\* C11: each content of 1024 bytes or more among the saved files has its blob
\* under large_files/, named by its hash and holding it; no blob holds anything
\* but the content it is named by (so one blob per content); N files of one
\* large content saved into an empty cache leave one blob and N pointer
\* records: content length + N * (len(prefix) + 64) bytes in the cache.
C11_OneBlobPerContent ==
  /\ \A c \in SavedLarge :
       /\ IsFile(fs, LargeFiles \o <<Blake3(c)>>)
       /\ fs[LargeFiles \o <<Blake3(c)>>].data = c
  /\ \A b \in Blobs(fs) : Blake3(fs[b].data) = Last(b)
  /\ SavedDuplicates =>
       \A i \in 1..Len(hist) :
         LET f == After(i)
             n == Cardinality(SavedFiles(1))
             c == hist[1].pre[CHOOSE q \in SavedFiles(1) : TRUE].data
         IN (\A j \in 1..i : hist[j].op = "save" => hist[j].path = hist[1].path \/ SavedFiles(j) = {})
              /\ (\A j \in 1..i : hist[j].op # "load")
              => /\ Cardinality(Blobs(f)) = 1
                 /\ CacheBytes(f) = c.len + n * (PrefixLen + HexLen)

\* Two files of 1024 zeros were saved into an empty cache.
C11_Witness ==
  /\ SavedDuplicates
  /\ Len(hist) = 1
  /\ Zeros \in SavedLarge
  /\ Cardinality(Blobs(fs)) = 1

\* Where the i-th operation, a save, stores the source file q.
DestOf(i, q) ==
  SaveTo(hist[i].path) \o SubSeq(q, Len(SaveFrom(hist[i].path)) + 1, Len(q))
\* The source file q of save i is stored verbatim at its mirrored destination.
StoredInline(i, q) ==
  /\ IsFile(After(i), DestOf(i, q))
  /\ After(i)[DestOf(i, q)].data = hist[i].pre[q].data
\* The source file q of save i is stored as a pointer record and a blob.
StoredByHash(i, q) ==
  LET c == hist[i].pre[q].data
  IN /\ IsFile(After(i), DestOf(i, q))
     /\ After(i)[DestOf(i, q)].data = PointerRecord(Blake3(c))
     /\ IsFile(After(i), LargeFiles \o <<Blake3(c)>>)
     /\ After(i)[LargeFiles \o <<Blake3(c)>>].data = c
\* The blobs save i wrote or changed are those of its files of 1024 bytes or
\* more.
BlobsOnlyOfLarge(i) ==
  \A b \in Blobs(After(i)) :
    (b \notin Blobs(hist[i].pre) \/ After(i)[b] # hist[i].pre[b]) =>
      \E q \in SavedFiles(i) :
        /\ hist[i].pre[q].data.len >= DEDUPLICATE_LARGER_THAN
        /\ Last(b) = Blake3(hist[i].pre[q].data)

\* C12 as stated: how save stores a file depends on its length alone: under
\* 1024 bytes verbatim at the mirrored destination, otherwise a pointer record
\* there and the content under large_files/<hash>.
C12_StoredByLengthAlone ==
  \A i \in 1..Len(hist) :
    SavedOk(i) =>
      /\ BlobsOnlyOfLarge(i)
      /\ \A q \in SavedFiles(i) :
           IF hist[i].pre[q].data.len < DEDUPLICATE_LARGER_THAN
             THEN StoredInline(i, q)
             ELSE StoredByHash(i, q)

\* C12 amended: a source file that is not pointer-shaped (not both 77 bytes
\* long and starting with the prefix) is stored by its length alone: under
\* 1024 bytes verbatim, otherwise as a pointer record and a blob; the
\* destination of a pointer-shaped source file receives the content of the
\* blob the file names; 1023 bytes is inline and 1024 bytes deduplicated.
C12_StoredByLengthUnlessPointer ==
  \A i \in 1..Len(hist) :
    SavedOk(i) =>
      /\ BlobsOnlyOfLarge(i)
      /\ \A q \in SavedFiles(i) :
           LET c == hist[i].pre[q].data
           IN IF c.len = PrefixLen + HexLen /\ c.pfx
                THEN /\ IsFile(After(i), DestOf(i, q))
                     /\ IsFile(After(i), LargeFiles \o <<c.tail>>)
                     /\ After(i)[DestOf(i, q)].data = After(i)[LargeFiles \o <<c.tail>>].data
                ELSE IF c.len < DEDUPLICATE_LARGER_THAN
                       THEN StoredInline(i, q)
                       ELSE StoredByHash(i, q)

\* One save stored a file of 1023 bytes inline and a file of 1024 bytes as a
\* pointer record and a blob.
C12_Witness ==
  \E i \in 1..Len(hist) :
    /\ SavedOk(i)
    /\ \E q, r \in SavedFiles(i) :
         /\ hist[i].pre[q].data.len = DEDUPLICATE_LARGER_THAN - 1
         /\ StoredInline(i, q)
         /\ hist[i].pre[r].data.len = DEDUPLICATE_LARGER_THAN
         /\ StoredByHash(i, r)

\* C13 as stated: a save leaves every blob that exists before it untouched
\* (bytes and permission bits): a blob is written only when none exists yet
\* at its hash.
C13_ExistingBlobUntouched ==
  \A i \in 1..Len(hist) :
    hist[i].op = "save" =>
      \A b \in Blobs(hist[i].pre) : IsFile(After(i), b) /\ After(i)[b] = hist[i].pre[b]

\* The i-th operation is a save of a path that does not exist.
SaveOfMissing(i) ==
  hist[i].op = "save" /\ ~Exists(hist[i].pre, SaveFrom(hist[i].path))

\* C14 as stated: save(path) on a path that does not exist returns success and
\* leaves the whole filesystem, the cache root included, as it was.
C14_SaveMissingIsNoOp ==
  \A i \in 1..Len(hist) :
    SaveOfMissing(i) => (hist[i].ok /\ After(i) = hist[i].pre)

\* C14 amended: save(path) on a path that does not exist returns success and
\* creates nothing but the cache root and its large_files directory where
\* they are missing: every file and directory there was is unchanged, and
\* nothing appears under absolute/ or relative/ or outside the cache.
C14_SaveMissingOnlyMakesLargeFiles ==
  \A i \in 1..Len(hist) :
    SaveOfMissing(i) =>
      /\ hist[i].ok
      /\ DOMAIN After(i) = DOMAIN hist[i].pre \cup {CacheRoot, LargeFiles}
      /\ \A q \in DOMAIN hist[i].pre : After(i)[q] = hist[i].pre[q]
      /\ IsDir(After(i), CacheRoot) /\ IsDir(After(i), LargeFiles)

\* A path that does not exist was saved into a cache that did not exist, with
\* source files present elsewhere.
C14_Witness ==
  \E i \in 1..Len(hist) :
    /\ SaveOfMissing(i)
    /\ ~Exists(hist[i].pre, CacheRoot)
    /\ FilesUnder(hist[i].pre, Root) # {}
    /\ IsDir(After(i), LargeFiles)

\* C15: load() with no cache root returns success and leaves the filesystem
\* as it was: nothing is created under "/" or under the working directory.
C15_LoadColdCacheIsNoOp ==
  \A i \in 1..Len(hist) :
    (hist[i].op = "load" /\ ~Exists(hist[i].pre, CacheRoot)) =>
      (hist[i].ok /\ After(i) = hist[i].pre)

\* load() ran with no cache root, on a filesystem holding source files.
C15_Witness ==
  \E i \in 1..Len(hist) :
    /\ hist[i].op = "load" /\ hist[i].ok
    /\ ~Exists(hist[i].pre, CacheRoot)
    /\ FilesUnder(hist[i].pre, Root) # {}
    /\ ~Exists(After(i), CacheRoot)

\* C16 as stated: after save(path), deletion and load(), each returning
\* success, every restored file, whatever its size, has the permission bits
\* its source had at save time (checked for the files that are not
\* pointer-shaped).
C16_PermissionsRestored ==
  \A i \in 1..Len(hist) :
    (RoundTripAt(i) /\ hist[i].ok /\ hist[i + 2].ok) =>
      \A q \in SavedFiles(i) :
        ~IsPointer(hist[i].pre[q].data) =>
          (IsFile(After(i + 2), q) /\ After(i + 2)[q].mode = hist[i].pre[q].mode)

\* ------------------------------------------- the target addresses' claims
HasColon(s) == \E i \in 1..Len(s) : s[i] = ":"
\* The part of a string before its first ':' (all of it when there is none).
BeforeColon(s) ==
  IF HasColon(s) THEN SubSeq(s, 1, Min({i \in 1..Len(s) : s[i] = ":"}) - 1) ELSE s
IsAbsolute(s) == Len(s) >= 2 /\ s[1] = "/" /\ s[2] = "/"

\* C17: parsing the Display form of an address whose package and identifier
\* hold no ':' gives the address back; a string with nothing before its first
\* ':' is rejected with MissingPackage, one whose package part does not start
\* with "//" with PackageMustBeAbsolute, one with an absolute package and no
\* ':' with MissingTask.
C17_ParseDisplay ==
  addr.parsed # NoParse =>
    /\ (addr.shown # NoAddress /\ ~HasColon(addr.shown.package)
          /\ ~HasColon(addr.shown.identifier)) => addr.parsed = ParseOk(addr.shown)
    /\ BeforeColon(addr.text) = <<>> => addr.parsed = ParseErr("MissingPackage")
    /\ (BeforeColon(addr.text) # <<>> /\ ~IsAbsolute(BeforeColon(addr.text)))
         => addr.parsed = ParseErr("PackageMustBeAbsolute")
    /\ (IsAbsolute(BeforeColon(addr.text)) /\ ~HasColon(addr.text))
         => addr.parsed = ParseErr("MissingTask")

\* An address whose package starts with '/' and holds a directory separator
\* was displayed and parsed back.
C17_Witness ==
  /\ addr.shown # NoAddress
  /\ addr.shown.package = <<"/", "a">>
  /\ addr.shown.identifier = <<"a">>
  /\ addr.parsed = ParseOk(addr.shown)

\* The listener's finish notifications, in order.
IsFinish(ev) == ev.ev = "finish"
Finishes == SelectSeq(progress, IsFinish)

\* C18: completions are drained, and their on_finish notifications made, in
\* the order in which the workers' messages arrived on the channel, whatever
\* the order of submission and the slots.
C18_DrainedInArrivalOrder ==
  /\ Len(order) <= Len(arrived)
  /\ \A k \in 1..Len(order) : order[k].uid = arrived[k]
  /\ Len(Finishes) = Len(order)
  /\ \A k \in 1..Len(order) : Finishes[k].uid = order[k].uid

\* Two tasks submitted under bound 2 finished in reverse submission order and
\* were drained and notified in that reverse order.
C18_Witness ==
  /\ max_threads = 2
  /\ Len(order) = 2 /\ order[1].uid = 2 /\ order[2].uid = 1
  /\ arrived = <<2, 1>>
  /\ Len(progress) = 4
  /\ progress[1].ev = "start" /\ progress[1].uid = 1
  /\ progress[2].ev = "start" /\ progress[2].uid = 2
  /\ progress[3].ev = "finish" /\ progress[3].uid = 2
  /\ progress[4].ev = "finish" /\ progress[4].uid = 1

\* C19: run() goes from its non-blocking drain to the blocking receive
\* exactly when max_threads tasks are still undrained, and otherwise straight
\* to the spawn; it is in the blocking receive only with every slot occupied.
C19_BlocksOnlyWhenFull ==
  /\ [](pc = "wait_one" => Cardinality(Undrained) >= max_threads)
  /\ [][(pc = "check" /\ pc' \in {"wait_one", "spawn"}) =>
          (pc' = "wait_one" <=> Cardinality(Undrained) >= max_threads)]_vars

\* With bound 2 a run() has spawned its task while another task is still
\* running, without having received any completion.
C19_Witness ==
  /\ max_threads = 2
  /\ pc = "on_start"
  /\ \E t \in threads : t.uid # call.uid
  /\ \A k \in 1..Len(order) : order[k].by # call.uid

\* Workers that have finished their operation.
Finished == started \ {t.uid : t \in threads}
\* The messages of task u ever put on the channel.
Delivered(u) == {k \in 1..Len(arrived) : arrived[k] = u}

\* C20 as stated: every started worker delivers exactly one message on the
\* channel when its operation finishes, whatever the ParRunner's state then
\* (accepting tasks, returned from into_wait, dropped).
C20_EveryWorkerDelivers ==
  \A u \in Finished : Cardinality(Delivered(u)) = 1

\* The files load copies: those under absolute/ and relative/ in the cache
\* root, and where load() puts each.
AbsoluteDir == CacheRoot \o <<"absolute">>
RelativeDir == CacheRoot \o <<"relative">>
CachedFiles(f) ==
  {q \in DOMAIN f : ~f[q].dir /\ (IsPrefix(AbsoluteDir, q) \/ IsPrefix(RelativeDir, q))}
LoadDest(q) ==
  IF IsPrefix(AbsoluteDir, q) THEN SubSeq(q, Len(AbsoluteDir) + 1, Len(q))
  ELSE Pwd \o SubSeq(q, Len(RelativeDir) + 1, Len(q))
\* A file with the length and the prefix of a pointer record.
PointerShaped(c) == c.len = PrefixLen + HexLen /\ c.pfx
LoadedOk(i) == hist[i].op = "load" /\ hist[i].ok
\* Load i gave the destination of the cached pointer record q the bytes of
\* the blob it names.
Resolved(i, q) ==
  LET c == hist[i].pre[q].data
  IN /\ IsFile(hist[i].pre, LargeFiles \o <<c.tail>>)
     /\ IsFile(After(i), LoadDest(q))
     /\ After(i)[LoadDest(q)].data = hist[i].pre[LargeFiles \o <<c.tail>>].data
\* Load i copied the cached file q verbatim.
Verbatim(i, q) ==
  /\ IsFile(After(i), LoadDest(q))
  /\ After(i)[LoadDest(q)].data = hist[i].pre[q].data
\* Every file of 1024 bytes or more, not pointer-shaped, that a successful
\* save before load i stored is there with its content after load i.
LargeRestored(i) ==
  \A j \in 1..i :
    SavedOk(j) =>
      \A q \in SavedFiles(j) :
        hist[j].pre[q].data.len >= DEDUPLICATE_LARGER_THAN =>
          (IsFile(After(i), q) /\ After(i)[q].data = hist[j].pre[q].data)

\* C21 as stated: load takes a cached file for a pointer record iff it is 77
\* bytes long and starts with the prefix, gives the destination of a pointer
\* record the bytes of its blob, and copies every other cached file verbatim;
\* large files saved earlier come back with their content.
C21_PointerOrVerbatim ==
  \A i \in 1..Len(hist) :
    LoadedOk(i) =>
      /\ \A q \in CachedFiles(hist[i].pre) :
           IF PointerShaped(hist[i].pre[q].data) THEN Resolved(i, q) ELSE Verbatim(i, q)
      /\ LargeRestored(i)

\* C21 amended: as stated, for the cached files shorter than 1024 bytes; the
\* destination of a cached file of 1024 bytes or more receives a pointer
\* record, and the file's bytes go to large_files/<hash>.
C21_PointerOrVerbatimIfSmall ==
  \A i \in 1..Len(hist) :
    LoadedOk(i) =>
      /\ \A q \in CachedFiles(hist[i].pre) :
           LET c == hist[i].pre[q].data
           IN IF PointerShaped(c) THEN Resolved(i, q)
              ELSE IF c.len < DEDUPLICATE_LARGER_THAN THEN Verbatim(i, q)
              ELSE /\ IsFile(After(i), LoadDest(q))
                   /\ After(i)[LoadDest(q)].data = PointerRecord(Blake3(c))
                   /\ IsFile(After(i), LargeFiles \o <<Blake3(c)>>)
                   /\ After(i)[LargeFiles \o <<Blake3(c)>>].data = c
      /\ LargeRestored(i)

\* A load restored a deleted file of 1024 bytes or more from its pointer
\* record and copied a cached 77-byte file without the prefix verbatim.
C21_Witness ==
  \E i \in 1..Len(hist) :
    /\ LoadedOk(i)
    /\ \E q, r \in CachedFiles(hist[i].pre) :
         /\ PointerShaped(hist[i].pre[q].data) /\ Resolved(i, q)
         /\ ~Exists(hist[i].pre, LoadDest(q))
         /\ After(i)[LoadDest(q)].data.len >= DEDUPLICATE_LARGER_THAN
         /\ hist[i].pre[r].data.len = PrefixLen + HexLen
         /\ ~hist[i].pre[r].data.pfx
         /\ Verbatim(i, r)

\* C22 as stated: save(path) of a regular file (here one that is not
\* pointer-shaped) succeeds and stores the file at its mirrored position,
\* whether or not the parent directories exist under absolute/ yet.
C22_SaveFileMakesParents ==
  \A i \in 1..Len(hist) :
    (/\ hist[i].op = "save"
     /\ IsFile(hist[i].pre, SaveFrom(hist[i].path))
     /\ ~PointerShaped(hist[i].pre[SaveFrom(hist[i].path)].data)) =>
      (hist[i].ok /\ IsFile(After(i), SaveTo(hist[i].path)))

\* The cached files with the shape of a pointer record and a tail that is no
\* hex.
BadPointers(f) == {q \in CachedFiles(f) : f[q].data = PtrBad}
\* Load i restored the cached file q.
RestoredFromCache(i, q) ==
  IF PointerShaped(hist[i].pre[q].data) THEN Resolved(i, q) ELSE Verbatim(i, q)

\* C23: a load that meets a pointer-shaped cached file whose tail is no hex
\* returns an error; nothing is rolled back: no file or directory there was
\* is gone, every destination is either as it was or restored, and when the
\* bad file is under relative/ only, every file cached under absolute/ (walked
\* first) that is shorter than 1024 bytes is restored.
C23_BadPointerFailsLoad ==
  \A i \in 1..Len(hist) :
    (hist[i].op = "load" /\ BadPointers(hist[i].pre) # {}) =>
      /\ ~hist[i].ok
      /\ DOMAIN hist[i].pre \subseteq DOMAIN After(i)
      /\ \A q \in CachedFiles(hist[i].pre) :
           hist[i].pre[q].data.len < DEDUPLICATE_LARGER_THAN =>
             \/ RestoredFromCache(i, q)
             \/ /\ Exists(hist[i].pre, LoadDest(q)) <=> Exists(After(i), LoadDest(q))
                /\ Exists(hist[i].pre, LoadDest(q)) => After(i)[LoadDest(q)] = hist[i].pre[LoadDest(q)]
      /\ (\A b \in BadPointers(hist[i].pre) : IsPrefix(RelativeDir, b)) =>
           \A q \in CachedFiles(hist[i].pre) :
             (IsPrefix(AbsoluteDir, q) /\ hist[i].pre[q].data.len < DEDUPLICATE_LARGER_THAN)
               => RestoredFromCache(i, q)

\* A load failed on a bad pointer record under relative/ after it had
\* restored a deleted file cached under absolute/.
C23_Witness ==
  \E i \in 1..Len(hist) :
    /\ hist[i].op = "load" /\ ~hist[i].ok
    /\ \E b \in BadPointers(hist[i].pre) : IsPrefix(RelativeDir, b)
    /\ \E q \in CachedFiles(hist[i].pre) :
         /\ IsPrefix(AbsoluteDir, q)
         /\ ~Exists(hist[i].pre, LoadDest(q))
         /\ RestoredFromCache(i, q)

\* Two filesystems hold the same files and directories with the same bytes.
SameContents(f, g) ==
  /\ DOMAIN f = DOMAIN g
  /\ \A q \in DOMAIN f : f[q].dir = g[q].dir /\ f[q].data = g[q].data
\* Operations i and i+1 are the same cache operation, run twice in a row.
Twice(i) ==
  /\ i + 1 <= Len(hist)
  /\ hist[i].op \in {"save", "load"}
  /\ hist[i + 1].op = hist[i].op /\ hist[i + 1].path = hist[i].path

\* C24: a save(path) or load() that returned success, run again at once
\* (source tree and cache unchanged in between), returns success again and
\* leaves the same files with the same contents as the first run did.
C24_RerunIsIdempotent ==
  \A i \in 1..Len(hist) :
    (Twice(i) /\ hist[i].ok) => (hist[i + 1].ok /\ SameContents(After(i + 1), After(i)))

\* A tree with a file of 1024 bytes or more and a shorter one was saved
\* twice in a row, with success.
C24_Witness ==
  \E i \in 1..Len(hist) :
    /\ Twice(i) /\ hist[i].op = "save" /\ hist[i].ok /\ hist[i + 1].ok
    /\ \E q, r \in SavedFiles(i) :
         /\ hist[i].pre[q].data.len >= DEDUPLICATE_LARGER_THAN
         /\ hist[i].pre[r].data.len < DEDUPLICATE_LARGER_THAN
    /\ SavedFiles(i + 1) = SavedFiles(i)

\* ------------------------------------------- the runner's claims, continued
\* The slot table is as run() and on_finished leave it (into_wait has not
\* cleared it and the runner has not been dropped).
SlotsKept == pc \in {"idle", "check", "wait_one", "spawn", "on_start", "into_wait", "iw_clear"}

\* C25: the task run() starts gets the lowest slot of 0..K-1 that is free at
\* that moment; a slot is occupied by its task from the spawn until the
\* task's result is drained, also after the operation has finished; no two
\* undrained tasks hold the same slot.
C25_LowestFreeSlot ==
  /\ pc = "on_start" =>
       \E s \in DOMAIN handles :
         /\ handles[s] = call.uid
         /\ \A m \in 0..(s - 1) : m \in DOMAIN handles /\ handles[m] # call.uid
  /\ SlotsKept =>
       /\ DOMAIN handles \subseteq 0..(max_threads - 1)
       /\ \A u \in Undrained : \E s \in DOMAIN handles : handles[s] = u
       /\ \A s \in DOMAIN handles : handles[s] \in Undrained
       /\ \A s, t \in DOMAIN handles : handles[s] = handles[t] => s = t

\* With bound 2 the third task was given slot 0, freed by the drain of the
\* first, while the second task, already finished but not drained, still
\* holds slot 1.
C25_Witness ==
  /\ max_threads = 2
  /\ pc = "on_start"
  /\ DOMAIN handles = {0, 1}
  /\ handles[0] = 3 /\ handles[1] = 2
  /\ 2 \notin {t.uid : t \in threads}

\* The submitting context is about to receive from the channel.
Receiving == pc \in {"check", "wait_one", "into_wait"} \/ (pc = "drop" /\ ~AllReceived)

\* C26: between operations of a usable runner the slot table and the name
\* table have the same keys, the slots of the started and undrained tasks,
\* each slot named as its task; every message that can be received carries a
\* slot the name table holds, so on_finished's expect never fails.
C26_TablesAgree ==
  /\ pc = "idle" =>
       /\ DOMAIN handles = DOMAIN names
       /\ {handles[s] : s \in DOMAIN handles} = Undrained
       /\ \A s \in DOMAIN handles : names[s] = tasks[handles[s]].name
  /\ Receiving => \A k \in 1..Len(chan) : chan[k].id \in DOMAIN names
  /\ pc # "panic"

\* Between two operations, with bound 2: both slots are occupied, one
\* completion has been drained and another waits in the channel.
C26_Witness ==
  /\ pc = "idle"
  /\ max_threads = 2
  /\ DOMAIN handles = {0, 1}
  /\ Len(order) >= 1
  /\ chan # <<>>

\* Tasks the listener has seen start and not finish.
SeenRunning == {u \in 1..Len(tasks) : StartsOf(u) # {} /\ FinishesOf(u) = {}}

\* C27: on_finish is delivered at most once per started task and only after
\* that task's on_start, never for a task whose run() returned Err (such a
\* task is never started), and the listener never sees more than K tasks
\* started and not finished.
C27_FinishAfterStartOnce ==
  /\ \A u \in 1..Len(tasks) :
       /\ Cardinality(FinishesOf(u)) <= 1
       /\ Cardinality(StartsOf(u)) <= 1
       /\ \A f \in FinishesOf(u) : \E s \in StartsOf(u) : s < f
  /\ \A i \in 1..Len(rets) :
       (rets[i].op = "run" /\ ~rets[i].ok) =>
         (StartsOf(rets[i].uid) = {} /\ FinishesOf(rets[i].uid) = {})
  /\ Cardinality(SeenRunning) <= max_threads

\* A worker has finished and sent its completion before run() has called
\* on_start for it: neither notification of that task has been made yet,
\* while another task has been notified of start and finish, and a run() has
\* returned Err.
C27_Witness ==
  /\ pc = "on_start"
  /\ \E k \in 1..Len(chan) : chan[k].uid = call.uid
  /\ StartsOf(call.uid) = {} /\ FinishesOf(call.uid) = {}
  /\ \E u \in 1..Len(tasks) : FinishesOf(u) # {}
  /\ \E i \in 1..Len(rets) : rets[i].op = "run" /\ ~rets[i].ok

====
